---- MODULE Spec2Model ----
(***************************************************************************)
(* Model of the generation request pipeline of prompta-flow:              *)
(*   src/app/api/generate/route.ts  (the POST handler and withRetry),     *)
(*   src/app/page.tsx               (the page that sends the requests).   *)
(*                                                                         *)
(* A JavaScript string is a sequence of one-character strings.  A provider *)
(* text is a sequence of tokens: the two literal markers the parser's      *)
(* regular expressions look for are single tokens (each in an upper-case   *)
(* and a lower-case spelling, the expressions carry the /i flag), every    *)
(* other token is one character.                                           *)
(***************************************************************************)
EXTENDS Integers, Sequences, FiniteSets, TLC

VARIABLES
    pc,          \* position of the handler: "start", "upsert", "attempt", "backoff", "parsing", "done"
    req,         \* what `await req.json()` yields (route.ts:66-77)
    apiKey,      \* process.env.OPENAI_API_KEY (route.ts:90)
    i,           \* withRetry's loop variable (route.ts:281)
    lastErr,     \* withRetry's lastErr (route.ts:280)
    httpTries,   \* requests the provider client has sent for the create() call in flight
    httpTotal,   \* requests the provider client has sent for this handler invocation
    events,      \* the external interactions of this invocation, in order
    leadLog,     \* how the lead upsert ended: "" (not yet), "ok", "error", "exception"
    lead,        \* the payload handed to the upsert, once it is sent (route.ts:100-121)
    prompt,      \* the system and user texts, once composed (route.ts:135-278)
    outputText,  \* response.output_text of the successful create() call (route.ts:304)
    grammar,     \* how outputText was put together, when it follows the output grammar
    response,    \* the NextResponse the handler returned
    procs,       \* two invocations of the handler running concurrently, each with its locals
    page,        \* the state of the page component (page.tsx:88-109)
    sends        \* the requests the page has sent, in order (page.tsx:126)

\* the variables of one invocation of the handler
handlerVars ==
    <<pc, req, apiKey, i, lastErr, httpTries, httpTotal, events, leadLog, lead, prompt,
      outputText, grammar, response>>

\* what a single invocation of the handler leaves alone
others == <<procs, page, sends>>

vars == <<handlerVars, others>>

----------------------------------------------------------------------------
(* JavaScript values and strings                                           *)

Undefined == [t |-> "undefined", s |-> <<>>]
Str(s) == [t |-> "string", s |-> s]

\* a value that is neither a string nor missing: the number 5
Num == [t |-> "number", s |-> <<"5">>]

\* JavaScript truthiness, for the values the model uses: undefined and the
\* empty string are falsy, every other string and the number 5 are truthy.
Truthy(v) == (v.t = "string" /\ v.s # <<>>) \/ v.t = "number"

\* String.prototype.toLowerCase, on the letters the model uses
ToLowerCase(s) == [k \in 1..Len(s) |-> IF s[k] = "A" THEN "a" ELSE s[k]]

\* \s of a JavaScript regular expression, and the characters String.trim removes.
IsSpace(c) == c \in {" ", "\n", "\t"}

RECURSIVE TrimStart(_)
TrimStart(s) ==
    IF s = <<>> THEN <<>>
    ELSE IF IsSpace(Head(s)) THEN TrimStart(Tail(s))
    ELSE s

RECURSIVE TrimEnd(_)
TrimEnd(s) ==
    IF s = <<>> THEN <<>>
    ELSE IF IsSpace(s[Len(s)]) THEN TrimEnd(SubSeq(s, 1, Len(s) - 1))
    ELSE s

\* String.prototype.trim
Trim(s) == TrimEnd(TrimStart(s))

Min(S) == CHOOSE x \in S : \A y \in S : x <= y
Max(S) == CHOOSE x \in S : \A y \in S : x >= y

----------------------------------------------------------------------------
(* Program constants                                                       *)

\* withRetry's default number of tries (route.ts:279)
tries == 3

\* the backoff unit in milliseconds (route.ts:287)
BackoffUnit == 800

\* the provider client's own retry budget per create() call (route.ts:131)
maxRetries == 2

\* .slice(0, 3) of the rationale bullets (route.ts:317)
WhyLimit == 3

----------------------------------------------------------------------------
(* Responses                                                               *)

NoResponse == [status |-> 0, error |-> "", post |-> <<>>, why |-> <<>>]

ErrorResponse(status, message) ==
    [status |-> status, error |-> message, post |-> <<>>, why |-> <<>>]

\* NextResponse.json({ post, why }): status 200
OkResponse(post, why) == [status |-> 200, error |-> "", post |-> post, why |-> why]

EmailRequiredMsg == "Email is required."
FieldsRequiredMsg == "Please fill required fields: Service, Problem, Result, Audience."
MissingKeyMsg == "Missing OPENAI_API_KEY in .env.local"
GenericMsg == "Something went wrong. Please try again in a few seconds."

----------------------------------------------------------------------------
(* Parsing of the provider text (route.ts:304-326)                         *)

IsPostMarker(c) == c \in {"POST:", "post:"}
IsWhyMarker(c) == c \in {"WHY THIS BUILDS AUTHORITY:", "why this builds authority:"}

\* the least index >= from of a token that is not white space, Len(text)+1 if none
FirstNonSpace(text, from) ==
    LET rest == {k \in from..Len(text) : ~IsSpace(text[k])}
    IN  IF rest = {} THEN Len(text) + 1 ELSE Min(rest)

\* /\n\s*WHY THIS BUILDS AUTHORITY:/i matches at index e
WhyMarkerLineAt(text, e) ==
    /\ e \in 1..Len(text)
    /\ text[e] = "\n"
    /\ LET w == FirstNonSpace(text, e + 1)
       IN  w <= Len(text) /\ IsWhyMarker(text[w])

\* The ways /POST:\s*([\s\S]*?)\n\s*WHY THIS BUILDS AUTHORITY:/i matches with
\* its POST: at index p: \s* takes k white-space tokens, the lazy group ends
\* at the first marker line at or after its start.
PostSkips(text, p) ==
    {k \in 0..(FirstNonSpace(text, p + 1) - (p + 1)) :
        \E e \in (p + 1 + k)..Len(text) : WhyMarkerLineAt(text, e)}

\* text.match(/POST:\s*([\s\S]*?)\n\s*WHY THIS BUILDS AUTHORITY:/i): the
\* leftmost start, the greedy \s* as long as a match remains, the lazy group
\* as short as possible.  found = FALSE is the null result.
PostMatch(text) ==
    LET starts == {p \in 1..Len(text) : IsPostMarker(text[p]) /\ PostSkips(text, p) # {}}
    IN  IF starts = {} THEN [found |-> FALSE, group |-> <<>>]
        ELSE LET p == Min(starts)
                 k == Max(PostSkips(text, p))
                 e == Min({x \in (p + 1 + k)..Len(text) : WhyMarkerLineAt(text, x)})
             IN  [found |-> TRUE, group |-> SubSeq(text, p + 1 + k, e - 1)]

\* text.match(/WHY THIS BUILDS AUTHORITY:\s*([\s\S]*)$/i): the leftmost
\* marker, then everything after the white space that follows it.
WhyMatch(text) ==
    LET starts == {w \in 1..Len(text) : IsWhyMarker(text[w])}
    IN  IF starts = {} THEN [found |-> FALSE, group |-> <<>>]
        ELSE LET w == Min(starts)
             IN  [found |-> TRUE,
                  group |-> SubSeq(text, FirstNonSpace(text, w + 1), Len(text))]

\* s.split("\n")
RECURSIVE SplitLines(_)
SplitLines(s) ==
    LET nl == {k \in 1..Len(s) : s[k] = "\n"}
    IN  IF nl = {} THEN <<s>>
        ELSE <<SubSeq(s, 1, Min(nl) - 1)>> \o SplitLines(SubSeq(s, Min(nl) + 1, Len(s)))

\* l.replace(/^\s*-\s*/, "").trim()
StripBullet(l) ==
    LET a == TrimStart(l)
    IN  Trim(IF a # <<>> /\ Head(a) = "-" THEN TrimStart(Tail(a)) ELSE l)

\* a variant that forgets the slice
SliceWhy_NoLimit(lines) == lines

\* .slice(0, 3)
SliceWhy(lines) == SubSeq(lines, 1, IF Len(lines) < WhyLimit THEN Len(lines) ELSE WhyLimit)

\* whyRaw.split("\n").map(...).filter(Boolean).slice(0, 3)   (route.ts:313-317)
WhyOf(whyRaw) ==
    LET lines == SplitLines(whyRaw)
        mapped == [k \in 1..Len(lines) |-> StripBullet(lines[k])]
    IN  SliceWhy(SelectSeq(mapped, LAMBDA l : l # <<>>))

\* const text = response.output_text || ""   (route.ts:304)
TextOf(v) == IF Truthy(v) THEN v.s ELSE <<>>

\* a variant that returns the raw text untrimmed
Fallback_Untrimmed(text) == OkResponse(text, <<>>)

\* if (!post) return { post: text.trim(), why: [] }   (route.ts:319-324)
Fallback(text) == OkResponse(Trim(text), <<>>)

\* route.ts:306-326: from the provider text to the response
ParseResponse(text) ==
    LET postMatch == PostMatch(text)
        whyMatch == WhyMatch(text)
        post == Trim(IF postMatch.found THEN postMatch.group ELSE <<>>)
        whyRaw == Trim(IF whyMatch.found THEN whyMatch.group ELSE <<>>)
        why == WhyOf(whyRaw)
    IN  IF post = <<>> THEN Fallback(text) ELSE OkResponse(post, why)

----------------------------------------------------------------------------
(* The address shape the page tests before it sends (page.tsx:165)         *)

\* /^[^\s@]+@[^\s@]+\.[^\s@]+$/.test(s): no white space, one @ after a
\* non-empty local part, and a dot with something on both sides after it.
EmailShapeOk(s) ==
    /\ \A k \in 1..Len(s) : ~IsSpace(s[k])
    /\ Cardinality({k \in 1..Len(s) : s[k] = "@"}) = 1
    /\ \E at \in 2..Len(s) :
          /\ s[at] = "@"
          /\ \E dot \in (at + 2)..(Len(s) - 1) : s[dot] = "."

----------------------------------------------------------------------------
(* The inputs of one handler invocation                                    *)

\* values a required field of the body takes: missing, "", " ", "a"
FieldInputs == {Undefined, Str(<<>>), Str(<<" ">>), Str(<<"a">>)}

\* values the email field takes: missing, "", " ", "a", "a@a", "a@a.a", " A@a.a "
EmailInputs ==
    {Undefined, Str(<<>>), Str(<<" ">>), Str(<<"a">>), Str(<<"a", "@", "a">>),
     Str(<<"a", "@", "a", ".", "a">>), Str(<<" ", "A", "@", "a", ".", "a", " ">>)}

\* a body that leaves priceRange, audienceStage, postType, tone and topic out
Body(kind, service, problem, result, audience, email) ==
    [kind |-> kind, service |-> service, problem |-> problem, result |-> result,
     audience |-> audience, email |-> email,
     priceRange |-> Undefined, audienceStage |-> Undefined, postType |-> Undefined,
     tone |-> Undefined, topic |-> Undefined]

\* the body b with its optional fields set
WithOptions(b, priceRange, audienceStage, postType, tone, topic) ==
    [b EXCEPT !.priceRange = priceRange, !.audienceStage = audienceStage,
              !.postType = postType, !.tone = tone, !.topic = topic]

\* an option of a select, as one token
Opt(name) == Str(<<name>>)

\* values the optional fields take: missing, "", each recognized option, and
\* one that is not recognized
PriceRangeInputs ==
    {Undefined, Str(<<>>), Opt("under_500"), Opt("500_2k"), Opt("2k_5k"), Opt("5k_plus"),
     Opt("unsure"), Opt("other")}
AudienceStageInputs ==
    {Undefined, Str(<<>>), Opt("beginner"), Opt("growing"), Opt("scaling"), Opt("other")}
PostTypeInputs ==
    {Undefined, Str(<<>>), Opt("authority"), Opt("contrarian"), Opt("client"), Opt("other")}
ToneInputs ==
    {Undefined, Str(<<>>), Opt("direct"), Opt("calm"), Opt("educational"), Opt("other")}

\* values the topic takes: missing, "", " ", "t", and the number 5
TopicInputs == {Undefined, Str(<<>>), Str(<<" ">>), Str(<<"t">>), Num}

\* a body that passes the validation and names no option
ValidBody ==
    Body("object", Str(<<"a">>), Str(<<"a">>), Str(<<"a">>), Str(<<"a">>),
         Str(<<"a", "@", "a", ".", "a">>))

\* valid bodies with every value of each optional field
OptionRequests ==
    {WithOptions(ValidBody, p, s, t, n, topic) :
        p \in PriceRangeInputs, s \in AudienceStageInputs, t \in PostTypeInputs,
        n \in ToneInputs, topic \in TopicInputs}

\* What `await req.json()` yields: a rejection (the body is no JSON), null
\* (destructuring it throws a TypeError), or an object with its fields.  The
\* handler's runs take the required fields in every combination, and a valid
\* body with some values of postType and every value of topic.
Requests ==
    {Body("unparseable", Undefined, Undefined, Undefined, Undefined, Undefined),
     Body("null", Undefined, Undefined, Undefined, Undefined, Undefined)}
    \cup {Body("object", s, p, r, a, e) :
            s \in FieldInputs, p \in FieldInputs, r \in FieldInputs,
            a \in FieldInputs, e \in EmailInputs}
    \cup {WithOptions(ValidBody, Undefined, Undefined, t, Undefined, topic) :
            t \in {Undefined, Opt("contrarian"), Opt("other")}, topic \in TopicInputs}

\* process.env.OPENAI_API_KEY: unset, empty, set
ApiKeyInputs == {Undefined, Str(<<>>), Str(<<"k">>)}

\* response.output_text of a successful call, for the handler's runs: missing,
\* empty, blank, free text without markers, and a well-formed block.
TextInputs ==
    {Undefined, Str(<<>>), Str(<<" ", "\n">>), Str(<<"a", " ", "b">>),
     Str(<<"POST:", "\n", "a", "\n", "\n", "WHY THIS BUILDS AUTHORITY:", "\n",
           "-", " ", "a", "\n", "-", " ", "b">>)}

\* How one request of the provider client can fail.  The client resends by
\* itself after a retryable failure while its retry budget lasts.
ProviderErrors == {"timeout", "http500", "http401"}
Retryable(e) == e \in {"timeout", "http500"}

\* How the lead upsert can end: stored, an error value returned, an exception.
UpsertOutcomes == {"ok", "error", "exception"}

----------------------------------------------------------------------------
(* Provider texts for the parser                                           *)

\* longest post block, in tokens, of a text drawn from the output grammar
MaxBlockLen == 2

\* most bulleted lines of a text drawn from the output grammar
MaxBullets == 4

\* longest text, in tokens, drawn without regard to the grammar
MaxTextLen == 5

SeqsUpTo(S, n) == UNION {[1..k -> S] : k \in 0..n}

\* The output grammar the system text asks for (route.ts:183-193):
\*     POST:
\*     <post>
\*
\*     WHY THIS BUILDS AUTHORITY:
\*     - <bullet>
\* in two layouts: as asked, and in lower case with white space around the markers.
Layouts ==
    <<[postMarker |-> "POST:", lead |-> <<"\n">>, sep |-> <<"\n", "\n">>,
       whyMarker |-> "WHY THIS BUILDS AUTHORITY:", after |-> <<"\n">>],
      [postMarker |-> "post:", lead |-> <<" ">>, sep |-> <<" ", "\n", " ">>,
       whyMarker |-> "why this builds authority:", after |-> <<" ", "\n">>]>>

\* a post block: free text, which may itself hold the words of a marker
BlockInputs ==
    SeqsUpTo({"a", "\n", "POST:", "WHY THIS BUILDS AUTHORITY:"}, MaxBlockLen)

\* a bulleted line: indentation, the hyphen, a gap, the bullet's text
BulletInputs ==
    {[indent |-> <<>>, gap |-> <<" ">>, content |-> <<"a">>],
     [indent |-> <<" ">>, gap |-> <<" ">>, content |-> <<>>],
     [indent |-> <<>>, gap |-> <<>>, content |-> <<"-", "b", " ", "c">>]}

BulletLine(b) == b.indent \o <<"-">> \o b.gap \o b.content

RECURSIVE JoinLines(_)
JoinLines(lines) ==
    IF lines = <<>> THEN <<>>
    ELSE IF Len(lines) = 1 THEN Head(lines)
    ELSE Head(lines) \o <<"\n">> \o JoinLines(Tail(lines))

GrammarInputs ==
    {[ok |-> TRUE, layout |-> l, block |-> b, bullets |-> bs] :
        l \in 1..Len(Layouts), b \in BlockInputs, bs \in SeqsUpTo(BulletInputs, MaxBullets)}

NoGrammar == [ok |-> FALSE, layout |-> 0, block |-> <<>>, bullets |-> <<>>]

\* the text of a grammar instance
GrammarText(g) ==
    LET l == Layouts[g.layout]
    IN  <<l.postMarker>> \o l.lead \o g.block \o l.sep \o <<l.whyMarker>> \o l.after
        \o JoinLines([k \in 1..Len(g.bullets) |-> BulletLine(g.bullets[k])])

\* texts drawn without regard to the grammar
RawTextInputs ==
    SeqsUpTo({"POST:", "WHY THIS BUILDS AUTHORITY:", "\n", " ", "a"}, MaxTextLen)

----------------------------------------------------------------------------
(* Prompt composition (route.ts:10-62 and 135-278).  A fixed text of the   *)
(* source is one token; a text is the sequence of its tokens.              *)

priceRangeToText(p) ==
    CASE p = Opt("under_500") -> <<"Under $500">>
      [] p = Opt("500_2k") -> <<"$500-$2k">>
      [] p = Opt("2k_5k") -> <<"$2k-$5k">>
      [] p = Opt("5k_plus") -> <<"$5k+">>
      [] OTHER -> <<"Not specified">>

\* a variant whose default branch is the first option
stageToText_DefaultBeginner(s) ==
    CASE s = Opt("beginner") -> <<"Beginner">>
      [] s = Opt("growing") -> <<"Growing">>
      [] s = Opt("scaling") -> <<"Scaling">>
      [] OTHER -> <<"Beginner">>

stageToText(s) ==
    CASE s = Opt("beginner") -> <<"Beginner">>
      [] s = Opt("growing") -> <<"Growing">>
      [] s = Opt("scaling") -> <<"Scaling">>
      [] OTHER -> <<"Growing">>

postTypeToText(t) ==
    CASE t = Opt("authority") -> <<"Authority Post">>
      [] t = Opt("contrarian") -> <<"Contrarian Insight">>
      [] t = Opt("client") -> <<"Client-Attracting Educational">>
      [] OTHER -> <<"Authority Post">>

toneToText(t) ==
    CASE t = Opt("direct") -> <<"Direct, confident, concise">>
      [] t = Opt("calm") -> <<"Calm, grounded, clear">>
      [] t = Opt("educational") -> <<"Educational, practical, simple">>
      [] OTHER -> <<"Direct, confident, concise">>

\* `${v}` of a template literal, for a string or the number 5
TemplateText(v) == v.s

\* route.ts:135-194: the system text, the same literal for every request
system == <<"You are Prompta Flow">>

\* route.ts:196-214: the profile, as the sequence of its interpolated parts
profile(r) ==
    <<TemplateText(r.service), TemplateText(r.problem), TemplateText(r.result),
      priceRangeToText(r.priceRange), TemplateText(r.audience),
      stageToText(r.audienceStage), postTypeToText(r.postType), toneToText(r.tone),
      IF Truthy(r.topic) THEN TemplateText(r.topic)
      ELSE <<"Auto-pick the most strategic angle">>>>

\* route.ts:216-240
modeGuidance(postType) ==
    IF postType = Opt("contrarian") THEN <<"Mode: Contrarian Insight">>
    ELSE IF postType = Opt("client") THEN <<"Mode: Client-Attracting Educational">>
    ELSE <<"Mode: Authority Post">>

\* route.ts:243-268
stageGuidance(audienceStage) ==
    IF audienceStage = Opt("beginner") THEN <<"Audience level: Beginner.">>
    ELSE IF audienceStage = Opt("scaling") THEN <<"Audience level: Scaling.">>
    ELSE <<"Audience level: Growing.">>

\* route.ts:270-278: the user text, as the sequence of its parts
user(r) ==
    profile(r) \o <<modeGuidance(r.postType), stageGuidance(r.audienceStage),
                    <<"Now produce the output in the EXACT format required.">>>>

NoPrompt == [system |-> <<>>, user |-> <<>>]

\* what the handler hands to responses.create as instructions and input
\* (route.ts:294-301)
Compose(r) == [system |-> system, user |-> user(r)]

----------------------------------------------------------------------------
(* The lead record (route.ts:100-117)                                      *)

NoLead == [sent |-> FALSE, email |-> <<>>]

\* route.ts:101: String(email).trim().toLowerCase(), for a string email
LeadKey(r) == ToLowerCase(Trim(r.email.s))

\* route.ts:111: topic?.trim() throws a TypeError when topic is neither
\* missing nor a string
PayloadThrows(r) == r.topic.t \notin {"undefined", "string"}

----------------------------------------------------------------------------
(* The page component's state (page.tsx:88-109)                            *)

\* the useState initial values; resultData 0 is null, k is the data of the
\* page's k-th request
InitialPage ==
    [service |-> <<>>, problem |-> <<>>, result |-> <<>>, audience |-> <<>>,
     email |-> <<>>, emailGateOpen |-> FALSE, loading |-> FALSE, resultData |-> 0,
     errorMsg |-> ""]

\* no invocation of the handler is running concurrently
NoProcs == <<>>

\* neither the page nor concurrent invocations are part of the run
OthersIdle ==
    /\ procs = NoProcs
    /\ page = InitialPage
    /\ sends = <<>>

----------------------------------------------------------------------------
(* The POST handler (route.ts:64-337)                                      *)

Event(op, n) == [op |-> op, n |-> n]

\* route.ts:79-88: the message of the 400 response, "" when the body passes
ValidationError(r) ==
    IF ~Truthy(r.email) THEN EmailRequiredMsg
    ELSE IF ~Truthy(r.service) \/ ~Truthy(r.problem) \/ ~Truthy(r.result) \/ ~Truthy(r.audience)
         THEN FieldsRequiredMsg
    ELSE ""

\* a variant that lets the exception leave the handler: no response
CatchResponse_Escapes(e) == NoResponse

\* a variant that puts the error's message into the body
CatchResponse_Leak(e) == ErrorResponse(500, e)

\* route.ts:327-336: the outer catch answers every exception alike
CatchResponse(e) == ErrorResponse(500, GenericMsg)

\* a variant that waits the same time after every failure
BackoffMs_Flat(k) == BackoffUnit

\* route.ts:287: the delay after the failure of the attempt with loop index k
BackoffMs(k) == BackoffUnit * (k + 1)

\* route.ts:281: the loop condition
LoopContinues(k) == k < tries

\* route.ts:292-302 called by route.ts:283: fn() calls openai.responses.create,
\* and the client sends its first request.
CallProvider(k) ==
    /\ events' = Append(events, Event("create", k + 1))
    /\ httpTries' = 1
    /\ httpTotal' = httpTotal + 1
    /\ pc' = "attempt"

Respond(r) ==
    /\ response' = r
    /\ pc' = "done"

\* route.ts:128-302 up to the first request of the provider client: the
\* texts are composed and withRetry starts its first attempt.
StartGeneration ==
    /\ prompt' = Compose(req)
    /\ i' = 0
    /\ CallProvider(0)

\* a variant that looks for the credential only after sending the upsert
ReadBody_KeyCheckLate ==
    /\ pc = "start"
    /\ \/ /\ req.kind # "object"
          /\ Respond(CatchResponse("TypeError"))
          /\ UNCHANGED <<events, i, httpTries, httpTotal, leadLog, lead, prompt>>
       \/ /\ req.kind = "object"
          /\ ValidationError(req) # ""
          /\ Respond(ErrorResponse(400, ValidationError(req)))
          /\ UNCHANGED <<events, i, httpTries, httpTotal, leadLog, lead, prompt>>
       \/ /\ req.kind = "object"
          /\ ValidationError(req) = ""
          /\ ~Truthy(apiKey)
          /\ lead' = [sent |-> TRUE, email |-> LeadKey(req)]
          /\ events' = Append(events, Event("upsert", 1))
          /\ Respond(ErrorResponse(500, MissingKeyMsg))
          /\ UNCHANGED <<i, httpTries, httpTotal, leadLog, prompt>>
       \/ /\ req.kind = "object"
          /\ ValidationError(req) = ""
          /\ Truthy(apiKey)
          /\ ~PayloadThrows(req)
          /\ lead' = [sent |-> TRUE, email |-> LeadKey(req)]
          /\ events' = Append(events, Event("upsert", 1))
          /\ pc' = "upsert"
          /\ UNCHANGED <<response, i, httpTries, httpTotal, leadLog, prompt>>
       \/ /\ req.kind = "object"
          /\ ValidationError(req) = ""
          /\ Truthy(apiKey)
          /\ PayloadThrows(req)
          /\ leadLog' = "exception"
          /\ StartGeneration
          /\ UNCHANGED <<response, lead>>
    /\ UNCHANGED <<others, req, apiKey, lastErr, outputText, grammar>>

\* route.ts:64-126: from the body to the first await after it.  When building
\* the record throws, the inner catch logs it and there is no await before
\* the provider call.
ReadBody ==
    /\ pc = "start"
    /\ \/ /\ req.kind # "object"
          /\ Respond(CatchResponse("TypeError"))
          /\ UNCHANGED <<events, i, httpTries, httpTotal, leadLog, lead, prompt>>
       \/ /\ req.kind = "object"
          /\ ValidationError(req) # ""
          /\ Respond(ErrorResponse(400, ValidationError(req)))
          /\ UNCHANGED <<events, i, httpTries, httpTotal, leadLog, lead, prompt>>
       \/ /\ req.kind = "object"
          /\ ValidationError(req) = ""
          /\ ~Truthy(apiKey)
          /\ Respond(ErrorResponse(500, MissingKeyMsg))
          /\ UNCHANGED <<events, i, httpTries, httpTotal, leadLog, lead, prompt>>
       \/ /\ req.kind = "object"
          /\ ValidationError(req) = ""
          /\ Truthy(apiKey)
          /\ ~PayloadThrows(req)
          /\ lead' = [sent |-> TRUE, email |-> LeadKey(req)]
          /\ events' = Append(events, Event("upsert", 1))
          /\ pc' = "upsert"
          /\ UNCHANGED <<response, i, httpTries, httpTotal, leadLog, prompt>>
       \/ /\ req.kind = "object"
          /\ ValidationError(req) = ""
          /\ Truthy(apiKey)
          /\ PayloadThrows(req)
          /\ leadLog' = "exception"
          /\ StartGeneration
          /\ UNCHANGED <<response, lead>>
    /\ UNCHANGED <<others, req, apiKey, lastErr, outputText, grammar>>

\* a variant whose inner catch rethrows
UpsertReturns_Rethrows ==
    /\ pc = "upsert"
    /\ \E outcome \in UpsertOutcomes :
          /\ leadLog' = outcome
          /\ \/ /\ outcome # "exception"
                /\ StartGeneration
                /\ UNCHANGED response
             \/ /\ outcome = "exception"
                /\ Respond(CatchResponse("upsert"))
                /\ UNCHANGED <<i, httpTries, httpTotal, events, prompt>>
    /\ UNCHANGED <<others, req, apiKey, lastErr, lead, outputText, grammar>>

\* route.ts:119-126: the upsert ends one way or another and is at most logged;
\* the handler goes on to the generation.
UpsertReturns ==
    /\ pc = "upsert"
    /\ \E outcome \in UpsertOutcomes : leadLog' = outcome
    /\ StartGeneration
    /\ UNCHANGED <<others, req, apiKey, lastErr, lead, outputText, grammar, response>>

\* route.ts:283: a request of the provider client is answered with a text;
\* create() resolves and withRetry returns.
ProviderSucceeds ==
    /\ pc = "attempt"
    /\ \E t \in TextInputs : outputText' = t
    /\ events' = Append(events, Event("ok", i + 1))
    /\ pc' = "parsing"
    /\ UNCHANGED <<others, req, apiKey, i, lastErr, httpTries, httpTotal, leadLog, lead, prompt,
                   grammar, response>>

\* route.ts:128-132: a request fails in a retryable way and the client, built
\* with maxRetries: 2, sends it again by itself; create() is still pending.
\* The client's own pause before it resends is no delay of withRetry.
ClientResends ==
    /\ pc = "attempt"
    /\ httpTries <= maxRetries
    /\ \E e \in ProviderErrors : Retryable(e)
    /\ httpTries' = httpTries + 1
    /\ httpTotal' = httpTotal + 1
    /\ UNCHANGED <<others, pc, req, apiKey, i, lastErr, events, leadLog, lead, prompt,
                   outputText, grammar, response>>

\* a variant whose catch goes round the loop without waiting
AttemptFails_NoWait ==
    /\ pc = "attempt"
    /\ \E e \in ProviderErrors :
          /\ Retryable(e) => httpTries > maxRetries
          /\ lastErr' = e
          /\ i' = i + 1
          /\ \/ /\ LoopContinues(i + 1)
                /\ httpTries' = 1
                /\ httpTotal' = httpTotal + 1
                /\ events' = events \o <<Event("fail", i + 1), Event("create", i + 2)>>
                /\ pc' = "attempt"
                /\ UNCHANGED response
             \/ /\ ~LoopContinues(i + 1)
                /\ events' = Append(events, Event("fail", i + 1))
                /\ Respond(CatchResponse(e))
                /\ UNCHANGED <<httpTries, httpTotal>>
    /\ UNCHANGED <<others, req, apiKey, leadLog, lead, prompt, outputText, grammar>>

\* route.ts:284-287: create() rejects; the catch keeps the error and starts the timer.
AttemptFails ==
    /\ pc = "attempt"
    /\ \E e \in ProviderErrors :
          /\ Retryable(e) => httpTries > maxRetries
          /\ lastErr' = e
    /\ events' = events \o <<Event("fail", i + 1), Event("delay", BackoffMs(i))>>
    /\ pc' = "backoff"
    /\ UNCHANGED <<others, req, apiKey, i, httpTries, httpTotal, leadLog, lead, prompt,
                   outputText, grammar, response>>

\* route.ts:281-290 and 327-336: the timer fires; the loop goes on with the
\* next attempt, or ends and throws lastErr into the outer catch.
TimerFires ==
    /\ pc = "backoff"
    /\ i' = i + 1
    /\ \/ /\ LoopContinues(i + 1)
          /\ CallProvider(i + 1)
          /\ UNCHANGED response
       \/ /\ ~LoopContinues(i + 1)
          /\ Respond(CatchResponse(lastErr))
          /\ UNCHANGED <<events, httpTries, httpTotal>>
    /\ UNCHANGED <<others, req, apiKey, lastErr, leadLog, lead, prompt, outputText, grammar>>

\* a variant that calls the provider again when the parsed post is empty
ParseText_RetryOnEmpty ==
    /\ pc = "parsing"
    /\ \/ /\ ParseResponse(TextOf(outputText)).post = <<>>
          /\ LoopContinues(i + 1)
          /\ i' = i + 1
          /\ CallProvider(i + 1)
          /\ UNCHANGED response
       \/ /\ ~(ParseResponse(TextOf(outputText)).post = <<>> /\ LoopContinues(i + 1))
          /\ Respond(ParseResponse(TextOf(outputText)))
          /\ UNCHANGED <<i, httpTries, httpTotal, events>>
    /\ UNCHANGED <<others, req, apiKey, lastErr, leadLog, lead, prompt, outputText, grammar>>

\* route.ts:304-326: the text is parsed and the 200 response returned.
ParseText ==
    /\ pc = "parsing"
    /\ Respond(ParseResponse(TextOf(outputText)))
    /\ UNCHANGED <<others, req, apiKey, i, lastErr, httpTries, httpTotal, events, leadLog, lead,
                   prompt, outputText, grammar>>

\* an invocation with a body out of bodies, before its first step
Start(bodies) ==
    /\ pc = "start"
    /\ req \in bodies
    /\ apiKey \in ApiKeyInputs
    /\ i = 0
    /\ lastErr = ""
    /\ httpTries = 0
    /\ httpTotal = 0
    /\ events = <<>>
    /\ leadLog = ""
    /\ lead = NoLead
    /\ prompt = NoPrompt
    /\ outputText = Undefined
    /\ grammar = NoGrammar
    /\ response = NoResponse
    /\ OthersIdle

Init == Start(Requests)

Next ==
    \/ ReadBody
    \/ UpsertReturns
    \/ ProviderSucceeds
    \/ ClientResends
    \/ AttemptFails
    \/ TimerFires
    \/ ParseText

Spec == Init /\ [][Next]_vars

\* The handler where the credential is configured (route.ts:90-91 finds a key).
InitConfigured ==
    /\ Init
    /\ Truthy(apiKey)

SpecConfigured == InitConfigured /\ [][Next]_vars

\* The handler where every external operation in flight eventually completes
\* or fails: the body read, the upsert, the provider's requests, the timer.
\* Its runs take one body of each kind: no JSON, null, no email, a blank
\* field, valid, and valid with a topic that makes building the record throw.
LiveRequests ==
    {Body("unparseable", Undefined, Undefined, Undefined, Undefined, Undefined),
     Body("null", Undefined, Undefined, Undefined, Undefined, Undefined),
     [ValidBody EXCEPT !.email = Undefined],
     [ValidBody EXCEPT !.audience = Str(<<>>)],
     ValidBody,
     [ValidBody EXCEPT !.topic = Num]}

InitLive == Start(LiveRequests)

\* an external operation in flight completes or fails
ExternalCompletes == pc # "parsing" /\ Next

\* the synchronous code after the successful call runs to its return; under
\* Next the only step from "parsing" to "done" is ParseText
ParseReturns == pc = "parsing" /\ pc' = "done"

SpecLive ==
    InitLive /\ [][Next]_vars /\ WF_vars(ExternalCompletes) /\ WF_pc(ParseReturns)

----------------------------------------------------------------------------
(* The handler for valid bodies that differ in their options.              *)

\* the options the handler recognizes (route.ts:5-8)
PriceRanges == {Opt("under_500"), Opt("500_2k"), Opt("2k_5k"), Opt("5k_plus"), Opt("unsure")}
AudienceStages == {Opt("beginner"), Opt("growing"), Opt("scaling")}
PostTypes == {Opt("authority"), Opt("contrarian"), Opt("client")}
Tones == {Opt("direct"), Opt("calm"), Opt("educational")}

\* a valid body where every option is named and none is the default
NamedBody ==
    WithOptions(ValidBody, Opt("2k_5k"), Opt("scaling"), Opt("client"), Opt("calm"),
                Str(<<"t">>))

\* Bodies that vary one option over all its values, the others being left
\* out or named.
ComposeRequests ==
    UNION {{[b EXCEPT !.priceRange = v] : v \in PriceRangeInputs}
           \cup {[b EXCEPT !.audienceStage = v] : v \in AudienceStageInputs}
           \cup {[b EXCEPT !.postType = v] : v \in PostTypeInputs}
           \cup {[b EXCEPT !.tone = v] : v \in ToneInputs} : b \in {ValidBody, NamedBody}}

InitCompose ==
    /\ Start(ComposeRequests)
    /\ Truthy(apiKey)

SpecCompose == InitCompose /\ [][Next]_vars

----------------------------------------------------------------------------
(* The parser alone: the handler stands where the first attempt of a valid *)
(* request has just succeeded, for every text the provider may have        *)
(* returned.                                                               *)

InitParse ==
    /\ pc = "parsing"
    /\ req = ValidBody
    /\ apiKey = Str(<<"k">>)
    /\ i = 0
    /\ lastErr = ""
    /\ httpTries = 1
    /\ httpTotal = 1
    /\ events = <<Event("upsert", 1), Event("create", 1), Event("ok", 1)>>
    /\ leadLog = "ok"
    /\ lead = [sent |-> TRUE, email |-> LeadKey(ValidBody)]
    /\ prompt = Compose(ValidBody)
    /\ \/ /\ grammar \in GrammarInputs
          /\ outputText = Str(GrammarText(grammar))
       \/ /\ grammar = NoGrammar
          /\ outputText \in {Undefined} \cup {Str(t) : t \in RawTextInputs}
    /\ response = NoResponse
    /\ OthersIdle

NextParse == ParseText

SpecParse == InitParse /\ [][NextParse]_vars

----------------------------------------------------------------------------
(* Two invocations of the handler running concurrently.  Every const and   *)
(* let of POST and withRetry (route.ts:66-77, 90, 100, 128-304, 280-281)   *)
(* is a local of the invocation: procs[p] holds those of invocation p.     *)
(* The credential is read from the process environment, which both share.  *)
(* The requests the provider client resends inside one create() call are   *)
(* left out here.                                                          *)

Procs == {1, 2}

\* the bodies of concurrent invocations: valid ones that share their
\* configuration and differ in the email, one with another post type, one
\* whose record cannot be built, one without email, and null
PairRequests ==
    {ValidBody,
     [ValidBody EXCEPT !.email = Str(<<" ", "A", "@", "a", ".", "a", " ">>)],
     [ValidBody EXCEPT !.postType = Opt("contrarian")],
     [ValidBody EXCEPT !.topic = Num],
     [ValidBody EXCEPT !.email = Undefined],
     Body("null", Undefined, Undefined, Undefined, Undefined, Undefined)}

PairTexts == {Str(<<>>), Str(<<"POST:", "a", "\n", "WHY THIS BUILDS AUTHORITY:", "-", "b">>)}
PairErrors == {"timeout", "http401"}

\* invocation p before its first step; now is what new Date() will read
HandlerStart(p, body) ==
    [pc |-> "start", req |-> body, now |-> p, i |-> 0, lastErr |-> "", leadLog |-> "",
     lastSeenAt |-> 0, prompt |-> NoPrompt, outputText |-> Undefined, results |-> <<>>,
     response |-> NoResponse]

\* a variant that writes the outcome of the upsert into the user text
ComposeFor_Logged(h) == [Compose(h.req) EXCEPT !.user = Append(@, <<h.leadLog>>)]

\* route.ts:135-278 for the invocation h
ComposeFor(h) == Compose(h.req)

\* route.ts:128-302: compose and start the first attempt
Generating(h) == [h EXCEPT !.prompt = ComposeFor(h), !.i = 0, !.pc = "attempt"]

\* The states one step of the invocation h can lead to, with the credential key.
HandlerSteps(h, key) ==
    CASE h.pc = "start" ->
            IF h.req.kind # "object"
            THEN {[h EXCEPT !.pc = "done", !.response = CatchResponse("TypeError")]}
            ELSE IF ValidationError(h.req) # ""
            THEN {[h EXCEPT !.pc = "done",
                            !.response = ErrorResponse(400, ValidationError(h.req))]}
            ELSE IF ~Truthy(key)
            THEN {[h EXCEPT !.pc = "done", !.response = ErrorResponse(500, MissingKeyMsg)]}
            ELSE IF PayloadThrows(h.req)
            THEN {Generating([h EXCEPT !.leadLog = "exception"])}
            ELSE {[h EXCEPT !.lastSeenAt = h.now, !.pc = "upsert"]}
      [] h.pc = "upsert" ->
            {Generating([h EXCEPT !.leadLog = outcome]) : outcome \in UpsertOutcomes}
      [] h.pc = "attempt" ->
            {[h EXCEPT !.outputText = t, !.results = Append(@, "ok"), !.pc = "parsing"] :
                t \in PairTexts}
            \cup {[h EXCEPT !.lastErr = e, !.results = Append(@, "fail"), !.pc = "backoff"] :
                    e \in PairErrors}
      [] h.pc = "backoff" ->
            IF LoopContinues(h.i + 1)
            THEN {[h EXCEPT !.i = h.i + 1, !.pc = "attempt"]}
            ELSE {[h EXCEPT !.i = h.i + 1, !.pc = "done",
                            !.response = CatchResponse(h.lastErr)]}
      [] h.pc = "parsing" ->
            {[h EXCEPT !.pc = "done", !.response = ParseResponse(TextOf(h.outputText))]}
      [] OTHER -> {}

\* a variant where withRetry's loop variable is one variable of the module
PairStep_SharedCounter(p) ==
    \E next \in HandlerSteps(procs[p], apiKey) :
        procs' = [q \in Procs |-> IF q = p THEN next ELSE [procs[q] EXCEPT !.i = next.i]]

\* one step of invocation p: it reads and writes its own locals only
PairStep(p) ==
    \E next \in HandlerSteps(procs[p], apiKey) :
        procs' = [procs EXCEPT ![p] = next]

\* what the single-invocation variables hold while the pair runs
HandlerIdle ==
    /\ pc = "done"
    /\ req = ValidBody
    /\ i = 0
    /\ lastErr = ""
    /\ httpTries = 0
    /\ httpTotal = 0
    /\ events = <<>>
    /\ leadLog = ""
    /\ lead = NoLead
    /\ prompt = NoPrompt
    /\ outputText = Undefined
    /\ grammar = NoGrammar
    /\ response = NoResponse

InitPair ==
    /\ HandlerIdle
    /\ apiKey \in ApiKeyInputs
    /\ procs \in {[p \in Procs |-> HandlerStart(p, bodies[p])] : bodies \in [Procs -> PairRequests]}
    /\ page = InitialPage
    /\ sends = <<>>

NextPair ==
    /\ \E p \in Procs : PairStep(p)
    /\ UNCHANGED <<handlerVars, page, sends>>

SpecPair == InitPair /\ [][NextPair]_vars

----------------------------------------------------------------------------
(* The page (page.tsx:88-182 and its buttons and inputs, 200-409).  One    *)
(* action is one event handler run up to its first await, or the rest of   *)
(* doGenerate once the response has arrived.  The gate is an overlay drawn *)
(* over the page (page.tsx:374-375): it neither disables the two buttons   *)
(* and the inputs under it nor keeps the keyboard focus inside itself, so  *)
(* they stay operable while it is open; the buttons' only guard is         *)
(* disabled={loading}.                                                     *)

\* most requests the page sends in one run
MaxSends == 2

\* least length of a required field after trimming (page.tsx:113-116)
MinFieldLen == 3

FieldNames == {"service", "problem", "result", "audience"}

\* what the user types into a required field: nothing, "ab ", "abc"; the
\* fields after service take nothing or "abc"
PageFieldInputs(f) ==
    IF f = "service" THEN {<<>>, <<"a", "b", " ">>, <<"a", "b", "c">>}
    ELSE {<<>>, <<"a", "b", "c">>}

\* what the user types into the email input: nothing, "a", " a@a.a "
PageEmailInputs == {<<>>, <<"a">>, <<" ", "a", "@", "a", ".", "a", " ">>}

FillFieldsMsg == "Fill the required fields: Service, Problem, Result, Audience."
ValidEmailMsg == "Please enter a valid email."
ServerErrorMsg == "Something went wrong"

\* page.tsx:111-118
canGenerate ==
    \A f \in FieldNames : Len(Trim(page[f])) >= MinFieldLen

\* page.tsx:120-138: doGenerate up to its await: the three setters and the
\* fetch with the fields of this render and the email passed in
doGenerate(passedEmail, by) ==
    /\ Len(sends) < MaxSends
    /\ page' = [page EXCEPT !.errorMsg = "", !.loading = TRUE, !.resultData = 0,
                            !.emailGateOpen = IF by = "gate" THEN FALSE ELSE @]
    /\ sends' = Append(sends, [email |-> passedEmail, can |-> canGenerate, by |-> by,
                                state |-> "flying"])

\* the onChange of a required field's input (page.tsx:200-250)
EditField ==
    /\ \E f \in FieldNames : \E v \in PageFieldInputs(f) :
          /\ v # page[f]
          /\ page' = [page EXCEPT ![f] = v]
    /\ UNCHANGED <<handlerVars, procs, sends>>

\* the onChange of the email input, which exists while the gate is open
\* (page.tsx:374, 386-391)
EditEmail ==
    /\ page.emailGateOpen
    /\ \E v \in PageEmailInputs :
          /\ v # page.email
          /\ page' = [page EXCEPT !.email = v]
    /\ UNCHANGED <<handlerVars, procs, sends>>

\* page.tsx:154-160, the button of page.tsx:321-327 (disabled while loading)
onClickGenerate ==
    /\ ~page.loading
    /\ page' = IF ~canGenerate THEN [page EXCEPT !.errorMsg = FillFieldsMsg]
               ELSE [page EXCEPT !.emailGateOpen = TRUE]
    /\ UNCHANGED <<handlerVars, procs, sends>>

\* page.tsx:162-172, the form of the gate (page.tsx:385-399)
onSubmitEmail ==
    /\ page.emailGateOpen
    /\ LET clean == Trim(page.email)
       IN  \/ /\ ~EmailShapeOk(clean)
              /\ page' = [page EXCEPT !.errorMsg = ValidEmailMsg]
              /\ UNCHANGED sends
           \/ /\ EmailShapeOk(clean)
              /\ doGenerate(clean, "gate")
    /\ UNCHANGED <<handlerVars, procs>>

\* the Cancel button of the gate (page.tsx:400-405)
CancelGate ==
    /\ page.emailGateOpen
    /\ page' = [page EXCEPT !.emailGateOpen = FALSE]
    /\ UNCHANGED <<handlerVars, procs, sends>>

\* a variant that sends without looking at the email
onRegenerate_NoCheck ==
    /\ ~page.loading
    /\ doGenerate(Trim(page.email), "regenerate")
    /\ UNCHANGED <<handlerVars, procs>>

\* page.tsx:174-182, the button of page.tsx:329-335 (disabled while loading)
onRegenerate ==
    /\ ~page.loading
    /\ LET clean == Trim(page.email)
       IN  \/ /\ ~EmailShapeOk(clean)
              /\ page' = [page EXCEPT !.emailGateOpen = TRUE]
              /\ UNCHANGED sends
           \/ /\ EmailShapeOk(clean)
              /\ doGenerate(clean, "regenerate")
    /\ UNCHANGED <<handlerVars, procs>>

\* page.tsx:140-151: the response of the k-th request arrives, or its fetch
\* fails; the data or the error message is set, then loading is cleared
ResponseArrives ==
    /\ \E k \in 1..Len(sends) :
          /\ sends[k].state = "flying"
          /\ \/ /\ sends' = [sends EXCEPT ![k].state = "ok"]
                /\ page' = [page EXCEPT !.resultData = k, !.loading = FALSE]
             \/ /\ sends' = [sends EXCEPT ![k].state = "error"]
                /\ page' = [page EXCEPT !.errorMsg = ServerErrorMsg, !.loading = FALSE]
    /\ UNCHANGED <<handlerVars, procs>>

InitPage ==
    /\ HandlerIdle
    /\ apiKey = Str(<<"k">>)
    /\ procs = NoProcs
    /\ page = InitialPage
    /\ sends = <<>>

NextPage ==
    \/ EditField
    \/ EditEmail
    \/ onClickGenerate
    \/ onSubmitEmail
    \/ CancelGate
    \/ onRegenerate
    \/ ResponseArrives

SpecPage == InitPage /\ [][NextPage]_vars

----------------------------------------------------------------------------
(* Properties                                                              *)

\* how many events of one kind the invocation has produced
Count(op) == Cardinality({k \in 1..Len(events) : events[k].op = op})

\* the delays observed, in order
Delays ==
    LET d == SelectSeq(events, LAMBDA ev : ev.op = "delay")
    IN  [k \in 1..Len(d) |-> d[k].n]

\* a field that is absent, empty or white space only
Blank(v) == v.t # "string" \/ Trim(v.s) = <<>>

AnyRequiredBlank ==
    Blank(req.service) \/ Blank(req.problem) \/ Blank(req.result)
        \/ Blank(req.audience) \/ Blank(req.email)

\* C1: a request in which service, problem, result, audience or email is
\* absent, empty or white space only is answered with status 400 and causes
\* no generation call.
C1_BlankFieldRejected ==
    (req.kind = "object" /\ AnyRequiredBlank) =>
        /\ Count("create") = 0
        /\ httpTotal = 0
        /\ pc = "done" => response.status = 400

\* C2: a request whose email is present but has not the shape
\* local-part @ domain . suffix is answered with status 400 and reaches
\* neither the lead upsert nor the generation call.  (Stated for the emails
\* that are not blank and lack the shape even with the white space around
\* them removed; the blank ones are C1's.)
C2_MalformedEmailRejected ==
    (/\ req.kind = "object"
     /\ req.email.t = "string"
     /\ Trim(req.email.s) # <<>>
     /\ ~EmailShapeOk(Trim(req.email.s))) =>
        /\ Count("upsert") = 0
        /\ Count("create") = 0
        /\ pc = "done" => response.status = 400

\* C3: when the handler answers with a validation error (400) or with the
\* missing-credential error (500), it has attempted no external call (no
\* upsert, no provider call, no timer) and does nothing afterwards.
C3_FailFast ==
    (response.status = 400 \/ response = ErrorResponse(500, MissingKeyMsg)) =>
        /\ events = <<>>
        /\ httpTotal = 0
        /\ leadLog = ""
        /\ pc = "done"
        /\ ~ENABLED Next

\* C3 happens: the handler has answered with the missing-credential error.
C3_Witness ==
    /\ pc = "done"
    /\ response = ErrorResponse(500, MissingKeyMsg)
    /\ req.kind = "object"

\* C4: per attempt the provider is called exactly once, and in one request
\* at most 3 times, counting every request the provider client sends.
C4_AtMostThreeProviderCalls ==
    /\ Count("create") <= 3
    /\ httpTries <= 1
    /\ httpTotal <= 3

\* what the invocation does from the upsert on when attempts 1..k-1 fail and
\* attempt k succeeds, a delay of 800*n after the failure of attempt n
\* the upsert of this invocation, if the record was built and sent
UpsertEvents == IF lead.sent THEN <<Event("upsert", 1)>> ELSE <<>>

RECURSIVE FailedAttempts(_)
FailedAttempts(n) ==
    IF n = 0 THEN <<>>
    ELSE FailedAttempts(n - 1)
            \o <<Event("create", n), Event("fail", n), Event("delay", 800 * n)>>

\* C5: for k in 1..3, when attempts 1..k-1 fail and attempt k succeeds, the
\* response is the parsed text of attempt k and the delays are exactly
\* 800*1, ..., 800*(k-1), each between a failed attempt and the next one.
C5_RetryThenSuccess ==
    \A k \in 1..3 :
        (pc = "done" /\ Count("ok") = 1 /\ Count("fail") = k - 1) =>
            /\ events = UpsertEvents \o FailedAttempts(k - 1)
                            \o <<Event("create", k), Event("ok", k)>>
            /\ Delays = [n \in 1..(k - 1) |-> 800 * n]
            /\ response.status = 200
            /\ response = ParseResponse(TextOf(outputText))

\* C5 happens: two attempts failed, the third succeeded, the handler answered.
C5_Witness ==
    /\ pc = "done"
    /\ Count("fail") = 2
    /\ Count("ok") = 1
    /\ Delays = <<800, 1600>>
    /\ response.status = 200
    /\ response.post # <<>>

\* C6: when all 3 attempts fail there is no further attempt and the answer
\* is status 500 with the fixed generic message, whatever the failure was.
C6_ExhaustedIsGeneric500 ==
    /\ Count("create") <= 3
    /\ Count("fail") = 3 =>
          /\ Count("create") = 3
          /\ Count("ok") = 0
          /\ pc \in {"backoff", "done"}
          /\ pc = "done" => response = ErrorResponse(500, GenericMsg)

\* C6 happens: three attempts failed, the last one with a 401, and the
\* handler has answered.
C6_Witness ==
    /\ pc = "done"
    /\ Count("fail") = 3
    /\ lastErr = "http401"
    /\ response.status = 500

\* C7: a delay follows only a failed attempt that is not the last one: there
\* are at most 2 delays in a request and none after the 3rd attempt's failure.
C7_NoDelayAfterLastAttempt ==
    /\ Count("delay") <= 2
    /\ \A k \in 2..Len(events) :
          events[k].op = "delay" => (events[k - 1].op = "fail" /\ events[k - 1].n < 3)

\* the rationale a grammar instance asks for: the bullets' texts that are not
\* empty, the first three of them
NonEmptyBullets(g) ==
    SelectSeq([k \in 1..Len(g.bullets) |-> g.bullets[k].content], LAMBDA c : c # <<>>)

ExpectedWhy(g) ==
    LET c == NonEmptyBullets(g)
    IN  SubSeq(c, 1, IF Len(c) < 3 THEN Len(c) ELSE 3)

WhyWellFormed ==
    /\ Len(response.why) <= 3
    /\ \A k \in 1..Len(response.why) : response.why[k] # <<>>

\* C8 as stated: for every text that follows the grammar, post is the trimmed
\* block between the markers and why the first min(n,3) non-empty bullets,
\* hyphen and surrounding white space removed; why has at most 3 entries and
\* no empty one.
C8_GrammarParsed ==
    (pc = "done" /\ grammar.ok) =>
        /\ response.status = 200
        /\ response.post = Trim(grammar.block)
        /\ response.why = ExpectedWhy(grammar)
        /\ WhyWellFormed

\* the post block is not blank and does not hold the words of the second marker
ProperBlock(g) ==
    /\ Trim(g.block) # <<>>
    /\ \A k \in 1..Len(g.block) : ~IsWhyMarker(g.block[k])

\* C8 as amended: the same for every text that follows the grammar and whose
\* post block is not blank and does not itself hold the words WHY THIS BUILDS
\* AUTHORITY:; and for every text whatever, why has at most 3 entries and no
\* empty one.
C8_GrammarParsedNonBlank ==
    /\ pc = "done" => WhyWellFormed
    /\ (pc = "done" /\ grammar.ok /\ ProperBlock(grammar)) =>
          /\ response.status = 200
          /\ response.post = Trim(grammar.block)
          /\ response.why = ExpectedWhy(grammar)

\* C8 happens: a grammar text with a post block and more than three non-empty
\* bullets has been parsed, and three of them came out.
C8_Witness ==
    /\ pc = "done"
    /\ grammar.ok
    /\ ProperBlock(grammar)
    /\ Len(NonEmptyBullets(grammar)) > 3
    /\ Len(response.why) = 3

\* the text holds no POST: marker
NoPostMarker(text) == \A k \in 1..Len(text) : ~IsPostMarker(text[k])

\* the block the expression captures after POST: is empty after trimming
CapturedBlockBlank(text) == PostMatch(text).found /\ Trim(PostMatch(text).group) = <<>>

\* C9: when the text holds no POST: marker, or the block captured after it is
\* blank, the answer is status 200 with post the whole trimmed text and why
\* empty, also when the text has a WHY THIS BUILDS AUTHORITY: section.
C9_DegradedResult ==
    LET text == TextOf(outputText)
    IN  (pc = "done" /\ (NoPostMarker(text) \/ CapturedBlockBlank(text)
                            \/ (grammar.ok /\ Trim(grammar.block) = <<>>))) =>
            response = [status |-> 200, error |-> "", post |-> Trim(text), why |-> <<>>]

\* C9 happens: a text with a blank post block and a rationale section with
\* bullets came back whole, white space around it removed, without rationale.
C9_Witness ==
    /\ pc = "done"
    /\ grammar.ok
    /\ Trim(grammar.block) = <<>>
    /\ NonEmptyBullets(grammar) # <<>>
    /\ response.status = 200
    /\ response.why = <<>>
    /\ response.post # TextOf(outputText)
    /\ Len(response.post) > 0

\* C10: every response with status 200 carries a non-empty post, whatever
\* text the provider returned.
C10_PostNonEmpty ==
    response.status = 200 => response.post # <<>>

\* C11: whatever the lead upsert does (stored, an error value, an exception
\* while the record is built or sent), the handler goes on to the provider
\* call, and its response is the one the provider's results alone determine:
\* the parsed text of the successful attempt, or the generic 500 once all
\* attempts have failed.
C11_UpsertNeverBlocks ==
    leadLog # "" =>
        /\ Count("create") >= 1
        /\ prompt = Compose(req)
        /\ pc = "done" =>
              /\ response = IF Count("ok") = 1 THEN ParseResponse(TextOf(outputText))
                            ELSE ErrorResponse(500, GenericMsg)
              /\ response.status # 200 => Count("fail") = tries

\* C11 happens: building the record threw, nothing was sent to the store, and
\* the handler answered 200 with the parsed post.
C11_Witness ==
    /\ pc = "done"
    /\ leadLog = "exception"
    /\ ~lead.sent
    /\ Count("upsert") = 0
    /\ response.status = 200
    /\ response.post # <<>>

\* C15: a body that is no JSON, or no JSON object, is answered with status
\* 400 and causes no external call.
C15_MalformedIs400 ==
    (req.kind # "object" /\ pc = "done") =>
        /\ response.status = 400
        /\ events = <<>>
        /\ httpTotal = 0

\* C16: from the moment a provider call has returned successfully, no step
\* of the handler sends another request to the provider or starts another
\* external operation, whatever the returned text is.
C16_NoCallAfterSuccess ==
    [][Count("ok") >= 1 => (httpTotal' = httpTotal /\ events' = events /\ Count("ok") = 1)]_vars

\* C16 happens: the provider returned a text without content, the handler
\* parsed it in degraded form and answered 200 with an empty post.
C16_Witness ==
    /\ pc = "done"
    /\ Count("ok") = 1
    /\ response.status = 200
    /\ response.post = <<>>
    /\ response.why = <<>>

\* provider calls started and not yet ended
InFlight == Count("create") - Count("ok") - Count("fail")

\* C17: at most one provider call is in flight; every attempt after the first
\* directly follows the failure of the attempt before it and the delay of
\* 800ms times that attempt's number, and it starts in the step in which that
\* delay's timer fires.
C17_Sequential ==
    /\ [](/\ InFlight \in {0, 1}
          /\ \A k \in 1..Len(events) :
                (events[k].op = "create" /\ events[k].n > 1) =>
                    /\ k > 2
                    /\ events[k - 1] = Event("delay", 800 * (events[k].n - 1))
                    /\ events[k - 2] = Event("fail", events[k].n - 1))
    /\ [][(Count("create")' > Count("create") /\ Count("create") >= 1) =>
            /\ pc = "backoff"
            /\ InFlight = 0
            /\ events[Len(events)] = Event("delay", 800 * Count("create"))]_vars

\* C17 happens: the third attempt is in flight, after two failures and the
\* delays of 800ms and 1600ms.
C17_Witness ==
    /\ pc = "attempt"
    /\ Count("create") = 3
    /\ Count("fail") = 2
    /\ Delays = <<800, 1600>>
    /\ InFlight = 1

\* C18: the upsert is sent only for a request that passed the validation, at
\* most once, and its key is the lowercased, trimmed email and is not empty.
C18_LeadKey ==
    /\ Count("upsert") <= 1
    /\ Count("upsert") = 1 <=> lead.sent
    /\ lead.sent =>
          /\ req.kind = "object"
          /\ ValidationError(req) = ""
          /\ lead.email = ToLowerCase(Trim(req.email.s))
          /\ lead.email # <<>>

\* C19: under SpecLive every invocation ends with a response whose status is
\* 200, 400 or 500; a response, once given, is never replaced, and the
\* handler has ended exactly when it has responded.
C19_Terminates ==
    /\ <>(pc = "done" /\ response.status \in {200, 400, 500})
    /\ [](pc = "done" <=> response # NoResponse)
    /\ [][response # NoResponse => response' = response]_vars

\* C19 happens: the body was no JSON object, the exception was caught and
\* answered with status 500.
C19_Witness ==
    /\ req.kind = "null"
    /\ pc = "done"
    /\ response.status = 500

\* the body r with every option that is not recognized left out
AsAbsent(r) ==
    [r EXCEPT !.priceRange = IF @ \in PriceRanges THEN @ ELSE Undefined,
              !.audienceStage = IF @ \in AudienceStages THEN @ ELSE Undefined,
              !.postType = IF @ \in PostTypes THEN @ ELSE Undefined,
              !.tone = IF @ \in Tones THEN @ ELSE Undefined]

\* the body r with every option that is left out or not recognized replaced
\* by the documented default
Defaulted(r) ==
    [r EXCEPT !.priceRange = IF @ \in PriceRanges THEN @ ELSE Opt("unsure"),
              !.audienceStage = IF @ \in AudienceStages THEN @ ELSE Opt("growing"),
              !.postType = IF @ \in PostTypes THEN @ ELSE Opt("authority"),
              !.tone = IF @ \in Tones THEN @ ELSE Opt("direct")]

\* C12: for a valid request, an option that is not recognized gives the texts
\* of the request that leaves the option out, which are the texts of the
\* documented default; the handler raises no error for it: it goes on to the
\* provider call and its response is the one the provider's results alone
\* determine, with status 200, or 500 once all attempts have failed.
C12_UnrecognizedAsDefault ==
    (req.kind = "object" /\ ValidationError(req) = "" /\ Truthy(apiKey) /\ pc # "start") =>
        /\ pc \notin {"upsert"} =>
              /\ prompt = Compose(AsAbsent(req))
              /\ prompt = Compose(Defaulted(req))
              /\ Count("create") >= 1
        /\ pc = "done" =>
              /\ response = IF Count("ok") = 1 THEN ParseResponse(TextOf(outputText))
                            ELSE ErrorResponse(500, GenericMsg)
              /\ response.status # 200 => Count("fail") = tries

\* C12 happens: all four options are named and one is not recognized, and the
\* handler answered 200.
C12_Witness ==
    /\ pc = "done"
    /\ response.status = 200
    /\ req.audienceStage = Opt("other")
    /\ req.postType = Opt("client")
    /\ prompt.user # <<>>

\* the fields of a body that composition reads
Config(r) ==
    <<r.service, r.problem, r.result, r.priceRange, r.audience, r.audienceStage, r.postType,
      r.topic, r.tone>>

\* C13: two invocations whose bodies have the same configuration fields have
\* composed the same system and user texts, whatever their emails, the times
\* at which they ran and the outcomes of their upserts; and the system text
\* is the same literal for every invocation.
C13_ComposeDeterministic ==
    \A p \in Procs : \A q \in Procs :
        LET a == procs[p]
            b == procs[q]
        IN  /\ a.prompt # NoPrompt => a.prompt.system = system
            /\ (a.prompt # NoPrompt /\ b.prompt # NoPrompt /\ Config(a.req) = Config(b.req)) =>
                  a.prompt = b.prompt

\* C13 happens: two invocations with the same configuration and different
\* emails ran at different times, one upsert was stored and the other threw,
\* and both have composed their texts.
C13_Witness ==
    /\ Config(procs[1].req) = Config(procs[2].req)
    /\ procs[1].req.email # procs[2].req.email
    /\ procs[1].now # procs[2].now
    /\ procs[1].lastSeenAt # procs[2].lastSeenAt
    /\ procs[1].leadLog = "ok"
    /\ procs[2].leadLog = "exception"
    /\ procs[1].prompt # NoPrompt
    /\ procs[1].prompt = procs[2].prompt

\* the response of the invocation h by its own body, the credential and the
\* results of its own attempts
OwnResponse(h, key) ==
    IF h.req.kind # "object" THEN ErrorResponse(500, GenericMsg)
    ELSE IF ValidationError(h.req) # "" THEN ErrorResponse(400, ValidationError(h.req))
    ELSE IF ~Truthy(key) THEN ErrorResponse(500, MissingKeyMsg)
    ELSE IF h.results # <<>> /\ h.results[Len(h.results)] = "ok"
         THEN ParseResponse(TextOf(h.outputText))
    ELSE ErrorResponse(500, GenericMsg)

\* C14: in every interleaving of two invocations, a step of one leaves the
\* locals of the other as they are, each counts its own attempts, and each
\* one's response is the one its own body, the credential and the results of
\* its own attempts determine.
C14_NoSharedState ==
    /\ [](\A p \in Procs :
            LET h == procs[p]
            IN  /\ Len(h.results) <= tries
                /\ h.pc = "attempt" => Len(h.results) = h.i
                /\ h.pc = "done" =>
                      /\ h.response = OwnResponse(h, apiKey)
                      /\ (h.results # <<>> /\ h.response.status = 500) =>
                            h.results = <<"fail", "fail", "fail">>)
    /\ [][\E p \in Procs : \A q \in Procs \ {p} : procs'[q] = procs[q]]_procs

\* C14 happens: both invocations have answered, the first with the text of
\* its second attempt, the second with the 500 after three failures of its own.
C14_Witness ==
    /\ procs[1].pc = "done"
    /\ procs[2].pc = "done"
    /\ procs[1].results = <<"fail", "ok">>
    /\ procs[1].response.status = 200
    /\ procs[2].results = <<"fail", "fail", "fail">>
    /\ procs[2].response = ErrorResponse(500, GenericMsg)

\* C20: every request the page has sent carries an email that is trimmed,
\* not empty, and of the address shape.
C20_SentEmailValid ==
    \A k \in 1..Len(sends) :
        /\ sends[k].email # <<>>
        /\ sends[k].email = Trim(sends[k].email)
        /\ EmailShapeOk(Trim(sends[k].email))

\* C20 happens: the user typed " a@a.a " into the gate, submitted it, and later
\* pressed New Angle; both requests carry "a@a.a".
C20_Witness ==
    /\ Len(sends) = 2
    /\ sends[1].by = "gate"
    /\ sends[2].by = "regenerate"
    /\ page.email = <<" ", "a", "@", "a", ".", "a", " ">>
    /\ sends[2].email = <<"a", "@", "a", ".", "a">>

\* C21: every request the page has sent was sent while canGenerate held:
\* service, problem, result and audience each had at least 3 characters
\* after trimming, whichever button sent it.
C21_SentOnlyWhenCanGenerate ==
    \A k \in 1..Len(sends) : sends[k].can

\* the page's requests that are in flight
Flying == {k \in 1..Len(sends) : sends[k].state = "flying"}

\* C22: at most one request of the page is in flight, loading is true
\* exactly while one is, and a result on display is that of the request
\* started last.
C22_OneInFlight ==
    /\ Cardinality(Flying) <= 1
    /\ page.loading <=> Flying # {}
    /\ page.resultData # 0 => page.resultData = Len(sends)

====
